---- MODULE Spec2Model ----
(***************************************************************************)
(* yt-dlp-tasker: a periodic job runner around an external download tool.  *)
(* The model follows src/src/main.rs: the resolver Tasks::try_from, the    *)
(* remote fetcher get_remote_job, the orchestrator Tasks::run_all, the     *)
(* executor download, one cycle run, and the scheduler loop main.          *)
(***************************************************************************)
EXTENDS Integers, Sequences, FiniteSets, TLC

(***************************************************************************)
(* Bounds of the model.                                                    *)
(***************************************************************************)
\* longest profile list of a TaskSource drawn for the resolver
MaxProfiles == 2
\* longest download list of a TaskSource drawn for the resolver
MaxDownloads == 2
\* longest profile-name list of one download drawn for the resolver
MaxRefs == 2
\* longest remote_job list of a configuration
MaxRemote == 2
\* the elapsed time of a cycle is a multiple of ElapsedStep seconds,
\* at most MaxElapsedSteps of them
ElapsedStep == 150
MaxElapsedSteps == 3
\* u64 is scaled to WordBits bits: the model checker's integers are 32 bit
WordBits == 16

(***************************************************************************)
(* Program constants.                                                      *)
(***************************************************************************)
\* the interval main uses when run returns an error
FallbackInterval == 300
\* the floor of the wait: .max(120)
MinWait == 120

Modulus == 2 ^ WordBits

Max(a, b) == IF a >= b THEN a ELSE b

(***************************************************************************)
(* Data model: Profile, Download, TaskSource, Tasks.                       *)
(***************************************************************************)
ProfileNames == {"audio", "video"}
DownloadNames == {"news", "music"}
UrlSets == {<<"https://v/1">>}

\* two profiles of one name and a third of another name
pAudio == [name |-> "audio", args |-> <<"-x">>, archive |-> TRUE]
pVideo == [name |-> "video", args |-> <<"-f", "best">>, archive |-> FALSE]
pAudioAlt == [name |-> "audio", args |-> <<"-f", "best">>, archive |-> FALSE]

Profile == {pAudio, pVideo, pAudioAlt}

SeqsUpTo(S, n) == UNION {[1..m -> S] : m \in 0..n}
NonEmptySeqsUpTo(S, n) == UNION {[1..m -> S] : m \in 1..n}

Download == [name : DownloadNames,
             profile : NonEmptySeqsUpTo(ProfileNames, MaxRefs),
             url : UrlSets]

TaskSource == [profile : SeqsUpTo(Profile, MaxProfiles),
               download : SeqsUpTo(Download, MaxDownloads)]

(***************************************************************************)
(* anyhow errors: a chain of messages, outermost context first.            *)
(***************************************************************************)
Msg(text, a, b) == [msg |-> text, a |-> a, b |-> b]

DuplicateProfile(name) == Msg("duplicate profile name", name, "")
UnknownProfileReference(profile_name, download_name) ==
    Msg("can not find profile", profile_name, download_name)

Ok(v) == [ok |-> TRUE, val |-> v]
Err(chain) == [ok |-> FALSE, err |-> chain]
\* .context(..) / .with_context(..) on a Result
WithContext(res, m) == IF res.ok THEN res ELSE Err(<<m>> \o res.err)

(***************************************************************************)
(* HashMap<String, Profile>                                                *)
(***************************************************************************)
EmptyMap == [n \in {} |-> n]
MapInsert(m, key, v) == [n \in (DOMAIN m) \cup {key} |-> IF n = key THEN v ELSE m[n]]

(***************************************************************************)
(* Tasks::try_from                                                         *)
(***************************************************************************)
\* InsertProfiles as it would be without the is_some check: the later
\* profile silently replaces the earlier one
RECURSIVE InsertProfiles_Overwrite(_, _, _)
InsertProfiles_Overwrite(profiles, idx, map) ==
    IF idx > Len(profiles) THEN Ok(map)
    ELSE InsertProfiles_Overwrite(profiles, idx + 1,
                                  MapInsert(map, profiles[idx].name, profiles[idx]))

\* InsertProfiles as it would be if the loop stopped one profile early
RECURSIVE InsertProfiles_SkipLast(_, _, _)
InsertProfiles_SkipLast(profiles, idx, map) ==
    IF idx >= Len(profiles) THEN Ok(map)
    ELSE LET profile == profiles[idx]
         IN  IF profile.name \in DOMAIN map
             THEN Err(<<DuplicateProfile(profile.name)>>)
             ELSE InsertProfiles_SkipLast(profiles, idx + 1,
                                          MapInsert(map, profile.name, profile))

RECURSIVE InsertProfiles(_, _, _)
\* the loop "for profile in value.profile": insert, bail when the key was there
InsertProfiles(profiles, idx, map) ==
    IF idx > Len(profiles) THEN Ok(map)
    ELSE LET profile == profiles[idx]
         IN  IF profile.name \in DOMAIN map
             THEN Err(<<DuplicateProfile(profile.name)>>)
             ELSE InsertProfiles(profiles, idx + 1, MapInsert(map, profile.name, profile))

\* CheckRefs as it would be without the ? on the lookup: nothing is rejected
CheckRefs_Unchecked(downloads, di, pi, map) == Ok(map)

\* CheckRefs as it would be if only the first profile name of a download
\* were looked up
RECURSIVE CheckRefs_FirstRefOnly(_, _, _, _)
CheckRefs_FirstRefOnly(downloads, di, pi, map) ==
    IF di > Len(downloads) THEN Ok(map)
    ELSE LET profile_name == downloads[di].profile[1]
         IN  IF profile_name \notin DOMAIN map
             THEN Err(<<UnknownProfileReference(profile_name, downloads[di].name)>>)
             ELSE CheckRefs_FirstRefOnly(downloads, di + 1, 1, map)

RECURSIVE CheckRefs(_, _, _, _)
\* the loops "for download in &value.download / for profile_name in &download.profile"
CheckRefs(downloads, di, pi, map) ==
    IF di > Len(downloads) THEN Ok(map)
    ELSE IF pi > Len(downloads[di].profile) THEN CheckRefs(downloads, di + 1, 1, map)
    ELSE LET profile_name == downloads[di].profile[pi]
         IN  IF profile_name \notin DOMAIN map
             THEN Err(<<UnknownProfileReference(profile_name, downloads[di].name)>>)
             ELSE CheckRefs(downloads, di, pi + 1, map)

try_from(value) ==
    LET hash_profiles == InsertProfiles(value.profile, 1, EmptyMap)
    IN  IF ~hash_profiles.ok THEN hash_profiles
        ELSE LET checked == CheckRefs(value.download, 1, 1, hash_profiles.val)
             IN  IF ~checked.ok THEN checked
                 ELSE Ok([profiles |-> hash_profiles.val, download |-> value.download])

(***************************************************************************)
(* Configurations and remote documents the scheduler is run on.            *)
(***************************************************************************)
Dl(name, refs) == [name |-> name, profile |-> refs, url |-> <<"https://v/1">>]

\* two downloads with one profile each
SrcTwoDownloads ==
    [profile |-> <<pAudio, pVideo>>,
     download |-> <<Dl("news", <<"audio">>), Dl("music", <<"video">>)>>]
\* one download under two profiles
SrcTwoProfiles ==
    [profile |-> <<pVideo, pAudio>>,
     download |-> <<Dl("news", <<"audio", "video">>)>>]
\* a duplicate profile name
SrcDuplicate ==
    [profile |-> <<pAudio, pAudioAlt>>,
     download |-> <<Dl("news", <<"audio">>)>>]
\* the second download names a profile that is not declared
SrcDangling ==
    [profile |-> <<pAudio>>,
     download |-> <<Dl("news", <<"audio">>), Dl("music", <<"video">>)>>]
\* a valid document that declares "audio" with other arguments
SrcRemoteAudio ==
    [profile |-> <<pAudioAlt>>,
     download |-> <<Dl("music", <<"audio">>)>>]
\* a document whose download names a profile no document declares here
SrcRemoteDangling ==
    [profile |-> <<pVideo>>,
     download |-> <<Dl("music", <<"audio">>)>>]

LocalSources == {SrcTwoDownloads, SrcTwoProfiles, SrcDuplicate, SrcDangling}
RemoteDocuments == {SrcRemoteAudio, SrcRemoteDangling, SrcDuplicate}

RemoteUrls == {"https://r/1", "https://r/2"}
Intervals == {100, 400}

BinNames == {"yt-dlp", "/opt/yt-dlp"}

Config == [bin_name : BinNames,
           interval : Intervals,
           profile : {s.profile : s \in LocalSources},
           download : {s.download : s \in LocalSources},
           remote_job : SeqsUpTo(RemoteUrls, MaxRemote)]

ConfigFile(s, interval, bin_name, remote_job) ==
    [bin_name |-> bin_name, interval |-> interval,
     profile |-> s.profile, download |-> s.download, remote_job |-> remote_job]

\* the contents config.toml may have when it parses: each local source with
\* one interval and one binary, and every remote_job list
ConfigFiles ==
    {ConfigFile(SrcTwoDownloads, 100, "yt-dlp", r) : r \in SeqsUpTo(RemoteUrls, MaxRemote)}
    \cup {ConfigFile(SrcTwoProfiles, 400, "/opt/yt-dlp", r) : r \in SeqsUpTo(RemoteUrls, MaxRemote)}
    \cup {ConfigFile(SrcDuplicate, 400, "yt-dlp", r) : r \in SeqsUpTo(RemoteUrls, MaxRemote)}
    \cup {ConfigFile(SrcDangling, 100, "/opt/yt-dlp", r) : r \in SeqsUpTo(RemoteUrls, MaxRemote)}

NoDocument == [profile |-> <<>>, download |-> <<>>]
\* what one HTTP GET may come back with
Responses ==
    {[kind |-> f, doc |-> NoDocument] : f \in {"send_error", "body_error", "malformed"}}
    \cup {[kind |-> "document", doc |-> d] : d \in RemoteDocuments}

(***************************************************************************)
(* get_remote_job                                                          *)
(***************************************************************************)
get_remote_job(response) ==
    IF response.kind = "send_error" THEN Err(<<Msg("failed to send request", "", "")>>)
    ELSE IF response.kind = "body_error" THEN Err(<<Msg("failed to load body", "", "")>>)
    ELSE IF response.kind = "malformed" THEN Err(<<Msg("failed to prase json", "", "")>>)
    ELSE try_from(response.doc)

(***************************************************************************)
(* download: the executor.  An argument is a sequence of string pieces,    *)
(* the pieces format! puts together.                                       *)
(***************************************************************************)
Arg(s) == <<s>>
Args(strs) == [x \in DOMAIN strs |-> Arg(strs[x])]
\* ArchivePath as it would be with the two names the other way round
ArchivePath_Swapped(download_name, profile_name) ==
    <<"archives/", profile_name, "-", download_name, ".txt">>

ArchivePath(download_name, profile_name) ==
    <<"archives/", download_name, "-", profile_name, ".txt">>

\* what the environment does to one job before a process runs: create_dir_all
\* fails, cmd.status() cannot start the process, or the process is started
StartOutcomes(profile) ==
    {"spawned", "launch_failed"}
    \cup (IF profile.archive THEN {"mkdir_failed"} ELSE {})

\* how a started process exits
ExitOutcomes == {"ok", "nonzero_exit"}

\* download as it would be if the result of create_dir_all were ignored
download_IgnoreMkdir(cfg, dl, profile, outcome) ==
    LET archive_args ==
            IF profile.archive
            THEN <<Arg("--download-archive"), ArchivePath(dl.name, profile.name)>>
            ELSE <<>>
        cmd == [program |-> cfg.bin_name,
                args |-> archive_args \o Args(profile.args) \o Args(dl.url)]
    IN  IF outcome \in {"launch_failed"}
        THEN [res |-> Err(<<Msg("failed to execute command", "", "")>>),
              cmd |-> cmd, status_called |-> TRUE]
        ELSE IF outcome = "nonzero_exit"
        THEN [res |-> Err(<<Msg("command exit with error status", "", "")>>),
              cmd |-> cmd, status_called |-> TRUE]
        ELSE [res |-> Ok(TRUE), cmd |-> cmd, status_called |-> TRUE]

\* the result of download, the command it built and whether cmd.status() ran
download(cfg, dl, profile, outcome) ==
    LET archive_args ==
            IF profile.archive
            THEN <<Arg("--download-archive"), ArchivePath(dl.name, profile.name)>>
            ELSE <<>>
        cmd == [program |-> cfg.bin_name,
                args |-> archive_args \o Args(profile.args) \o Args(dl.url)]
    IN  IF profile.archive /\ outcome = "mkdir_failed"
        THEN [res |-> Err(<<Msg("failed to create dir", "archives", "")>>),
              cmd |-> [program |-> cfg.bin_name, args |-> <<>>], status_called |-> FALSE]
        ELSE IF outcome = "launch_failed"
        THEN [res |-> Err(<<Msg("failed to execute command", "", "")>>),
              cmd |-> cmd, status_called |-> TRUE]
        ELSE IF outcome = "nonzero_exit"
        THEN [res |-> Err(<<Msg("command exit with error status", "", "")>>),
              cmd |-> cmd, status_called |-> TRUE]
        ELSE [res |-> Ok(TRUE), cmd |-> cmd, status_called |-> TRUE]

(***************************************************************************)
(* State of the scheduler.                                                 *)
(***************************************************************************)
VARIABLES
    pc,          \* position of main/run
    config,      \* run: config
    local_job,   \* run: local_job, an Option<Tasks>
    remote_jobs, \* run: remote_jobs, the (url, Tasks) pairs collected so far
    k,           \* run: position of the filter_map over config.remote_job
    cur,         \* run: the job set run_all works on, 0 local, n the n-th remote
    i, j,        \* run_all: position of the two loops
    errors,      \* run_all: errors
    intervall,   \* main: intervall
    duration,    \* main: duration.as_secs()
    wait_time,   \* main: wait_time
    stderr,      \* what run and main wrote with eprintln!
    requests,    \* the GETs run sent, each with what came back
    calls,       \* the calls of download run made
    running      \* the number of child processes that were started and have not exited

cvars == <<pc, config, local_job, remote_jobs, k, cur, i, j, errors,
           intervall, duration, wait_time, stderr, requests, calls, running>>

NoConfig == [loaded |-> FALSE]
Loaded(c) == [loaded |-> TRUE, val |-> c]
None == [some |-> FALSE]
Some(v) == [some |-> TRUE, val |-> v]

\* one line of stderr: the error and how it was printed
Line(chain, fmt) == [err |-> chain, fmt |-> fmt]

CycleStart ==
    /\ pc = "start"
    /\ config = NoConfig
    /\ local_job = None
    /\ remote_jobs = <<>>
    /\ k = 1
    /\ cur = 0
    /\ i = 1
    /\ j = 1
    /\ errors = <<>>
    /\ intervall = 0
    /\ duration = 0
    /\ wait_time = 0
    /\ stderr = <<>>
    /\ requests = <<>>
    /\ calls = <<>>
    /\ running = 0

\* the Tasks run_all works on
CurTasks == IF cur = 0 THEN local_job.val ELSE remote_jobs[cur].job

\* LoadConfigFailed as it would be if main took the floor, not the fallback
LoadConfigFailed_Floor ==
    /\ pc = "start"
    /\ stderr' = Append(stderr, Line(<<Msg("config.toml", "", "")>>, "display"))
    /\ intervall' = MinWait
    /\ pc' = "returned"
    /\ UNCHANGED <<config, local_job, remote_jobs, k, cur, i, j, errors,
                   duration, wait_time, requests, calls, running>>

(***************************************************************************)
(* run, line 179: config.toml cannot be read or parsed; main prints the    *)
(* error and takes 300.                                                    *)
(***************************************************************************)
LoadConfigFailed ==
    /\ pc = "start"
    /\ stderr' = Append(stderr, Line(<<Msg("config.toml", "", "")>>, "display"))
    /\ intervall' = FallbackInterval
    /\ pc' = "returned"
    /\ UNCHANGED <<config, local_job, remote_jobs, k, cur, i, j, errors,
                   duration, wait_time, requests, calls, running>>

\* LoadConfig as it would be if the local resolution error were returned
\* with ? instead of being matched
LoadConfig_Propagate ==
    /\ pc = "start"
    /\ \E c \in ConfigFiles :
         LET res == WithContext(try_from([profile |-> c.profile, download |-> c.download]),
                                Msg("failed to load local jobs", "", ""))
         IN  /\ config' = Loaded(c)
             /\ local_job' = IF res.ok THEN Some(res.val) ELSE None
             /\ stderr' = IF res.ok THEN stderr ELSE Append(stderr, Line(res.err, "display"))
             /\ pc' = IF res.ok THEN "fetch" ELSE "returned"
             /\ intervall' = IF res.ok THEN intervall ELSE FallbackInterval
    /\ UNCHANGED <<remote_jobs, k, cur, i, j, errors, duration, wait_time,
                   requests, calls, running>>

(***************************************************************************)
(* run, lines 179-191: the configuration loads, the local jobs are         *)
(* resolved.                                                               *)
(***************************************************************************)
LoadConfig ==
    /\ pc = "start"
    /\ \E c \in ConfigFiles :
         LET res == WithContext(try_from([profile |-> c.profile, download |-> c.download]),
                                Msg("failed to load local jobs", "", ""))
         IN  /\ config' = Loaded(c)
             /\ local_job' = IF res.ok THEN Some(res.val) ELSE None
             /\ stderr' = IF res.ok THEN stderr ELSE Append(stderr, Line(res.err, "debug"))
    /\ pc' = "fetch"
    /\ UNCHANGED <<remote_jobs, k, cur, i, j, errors, intervall, duration, wait_time,
                   requests, calls, running>>

(***************************************************************************)
(* run, lines 194-208: one turn of the filter_map over config.remote_job.  *)
(***************************************************************************)
\* filter_map_step as it would be if one failure threw away what was collected
filter_map_step_Reset(collected, url, res) ==
    IF res.ok THEN Append(collected, [url |-> url, job |-> res.val]) ELSE <<>>

\* the closure of the filter_map and the collect: a success is kept with its url
filter_map_step(collected, url, res) ==
    IF res.ok THEN Append(collected, [url |-> url, job |-> res.val]) ELSE collected

\* Fetch as it would be if a remote document were resolved together with the
\* profiles of the local configuration
Fetch_SharedProfiles ==
    /\ pc = "fetch"
    /\ k <= Len(config.val.remote_job)
    /\ LET url == config.val.remote_job[k]
       IN  \E response \in Responses :
             LET shared == [response EXCEPT !.doc.profile = config.val.profile \o @]
                 res == WithContext(get_remote_job(IF response.kind = "document"
                                                   THEN shared ELSE response),
                                    Msg("failed to load remote job at", url, ""))
             IN  /\ requests' = Append(requests, [url |-> url, response |-> response])
                 /\ remote_jobs' = filter_map_step(remote_jobs, url, res)
                 /\ stderr' = IF res.ok THEN stderr
                              ELSE Append(stderr, Line(res.err, "debug"))
    /\ k' = k + 1
    /\ UNCHANGED <<pc, config, local_job, cur, i, j, errors, intervall, duration,
                   wait_time, calls, running>>

Fetch ==
    /\ pc = "fetch"
    /\ k <= Len(config.val.remote_job)
    /\ LET url == config.val.remote_job[k]
       IN  \E response \in Responses :
             LET res == WithContext(get_remote_job(response),
                                    Msg("failed to load remote job at", url, ""))
             IN  /\ requests' = Append(requests, [url |-> url, response |-> response])
                 /\ remote_jobs' = filter_map_step(remote_jobs, url, res)
                 /\ stderr' = IF res.ok THEN stderr
                              ELSE Append(stderr, Line(res.err, "debug"))
    /\ k' = k + 1
    /\ UNCHANGED <<pc, config, local_job, cur, i, j, errors, intervall, duration,
                   wait_time, calls, running>>

\* RunLocal as it would be if the local jobs were run before the remote
\* jobs are fetched
RunLocal_BeforeFetch ==
    /\ pc = "fetch"
    /\ IF local_job.some
       THEN pc' = "run_all" /\ cur' = 0
       ELSE pc' = "remote_loop" /\ cur' = 1
    /\ i' = 1 /\ j' = 1 /\ errors' = <<>>
    /\ UNCHANGED <<config, local_job, remote_jobs, k, intervall, duration, wait_time,
                   stderr, requests, calls, running>>

(***************************************************************************)
(* run, lines 208-214: the fetches are collected; the local jobs, when     *)
(* they resolved, are run.                                                 *)
(***************************************************************************)
RunLocal ==
    /\ pc = "fetch"
    /\ k > Len(config.val.remote_job)
    /\ IF local_job.some
       THEN pc' = "run_all" /\ cur' = 0
       ELSE pc' = "remote_loop" /\ cur' = 1
    /\ i' = 1 /\ j' = 1 /\ errors' = <<>>
    /\ UNCHANGED <<config, local_job, remote_jobs, k, intervall, duration, wait_time,
                   stderr, requests, calls, running>>

(***************************************************************************)
(* run_all, lines 93-107: one (download, profile) pair.                    *)
(***************************************************************************)
\* push_error as it would be if the accumulator kept the last error only
push_error_KeepLast(errs, res) == IF res.ok THEN errs ELSE <<res.err>>

\* if let Err(err) = res { errors.push(err) }
push_error(errs, res) == IF res.ok THEN errs ELSE Append(errs, res.err)

\* NextPair as it would be if the inner loop were left after its first turn
NextPair_FirstProfileOnly(download_config, di, pi) == <<di + 1, 1>>

\* the two for loops: the position after the pair (di, pi)
NextPair(download_config, di, pi) ==
    IF pi < Len(download_config.profile) THEN <<di, pi + 1>> ELSE <<di + 1, 1>>

\* lines 96-106 once download has returned with this outcome
JobDone(outcome) ==
    LET download_config == CurTasks.download[i]
        profile == CurTasks.profiles[download_config.profile[j]]
        d == download(config.val, download_config, profile, outcome)
        res == WithContext(d.res,
                   Msg("Falied to process", download_config.name, profile.name))
        next == NextPair(download_config, i, j)
    IN  /\ calls' = Append(calls,
                       [set |-> cur, di |-> i, pi |-> j,
                        download |-> download_config.name,
                        profile |-> profile,
                        cmd |-> d.cmd,
                        status_called |-> d.status_called,
                        outcome |-> outcome])
        /\ errors' = push_error(errors, res)
        /\ stderr' = IF res.ok THEN stderr
                     ELSE Append(stderr, Line(res.err, "debug"))
        /\ i' = next[1]
        /\ j' = next[2]

\* RunAllJob as it would be with cmd.spawn() in place of cmd.status(): the
\* process is started and not waited for
RunAllJob_Spawn ==
    /\ pc = "run_all"
    /\ i <= Len(CurTasks.download)
    /\ LET download_config == CurTasks.download[i]
           profile_name == download_config.profile[j]
       IN  IF profile_name \notin DOMAIN CurTasks.profiles
           THEN /\ pc' = "panicked_unwrap"
                /\ UNCHANGED <<i, j, errors, stderr, calls, running>>
           ELSE \E start \in StartOutcomes(CurTasks.profiles[profile_name]) :
                  IF start = "spawned"
                  THEN /\ JobDone("ok")
                       /\ pc' = pc
                       /\ running' = running + 1
                  ELSE /\ JobDone(start)
                       /\ pc' = pc
                       /\ running' = running
    /\ UNCHANGED <<config, local_job, remote_jobs, k, cur, intervall, duration, wait_time,
                   requests>>

\* the profile is looked up and download is called: it fails before a process
\* exists, or cmd.status() starts the process and blocks
RunAllJob ==
    /\ pc = "run_all"
    /\ i <= Len(CurTasks.download)
    /\ LET download_config == CurTasks.download[i]
           profile_name == download_config.profile[j]
       IN  IF profile_name \notin DOMAIN CurTasks.profiles
           THEN \* .unwrap() on None
                /\ pc' = "panicked_unwrap"
                /\ UNCHANGED <<i, j, errors, stderr, calls, running>>
           ELSE \E start \in StartOutcomes(CurTasks.profiles[profile_name]) :
                  IF start = "spawned"
                  THEN /\ pc' = "waiting"
                       /\ running' = running + 1
                       /\ UNCHANGED <<i, j, errors, stderr, calls>>
                  ELSE /\ JobDone(start)
                       /\ pc' = pc
                       /\ running' = running
    /\ UNCHANGED <<config, local_job, remote_jobs, k, cur, intervall, duration, wait_time,
                   requests>>

(***************************************************************************)
(* download, lines 257-261: cmd.status() returns when the process has      *)
(* exited; run_all goes on to the next pair.                               *)
(***************************************************************************)
RunAllWait ==
    /\ pc = "waiting"
    /\ \E outcome \in ExitOutcomes : JobDone(outcome)
    /\ running' = running - 1
    /\ pc' = "run_all"
    /\ UNCHANGED <<config, local_job, remote_jobs, k, cur, intervall, duration, wait_time,
                   requests>>

\* RunAllSummary as it would be without the second loop over errors
RunAllSummary_Silent ==
    /\ pc = "run_all"
    /\ i > Len(CurTasks.download)
    /\ pc' = "remote_loop"
    /\ cur' = cur + 1
    /\ UNCHANGED <<config, local_job, remote_jobs, k, i, j, errors, intervall, duration,
                   wait_time, stderr, requests, calls, running>>

(***************************************************************************)
(* run_all, lines 112-114: the errors are printed again; run goes on to    *)
(* the next remote job set.                                                *)
(***************************************************************************)
RunAllSummary ==
    /\ pc = "run_all"
    /\ i > Len(CurTasks.download)
    /\ stderr' = stderr \o [x \in DOMAIN errors |-> Line(errors[x], "debug_nl")]
    /\ pc' = "remote_loop"
    /\ cur' = cur + 1
    /\ UNCHANGED <<config, local_job, remote_jobs, k, i, j, errors, intervall, duration,
                   wait_time, requests, calls, running>>

(***************************************************************************)
(* run, lines 216-221: the next remote job set is run, or run returns      *)
(* config.interval.                                                        *)
(***************************************************************************)
RunRemote ==
    /\ pc = "remote_loop"
    /\ cur <= Len(remote_jobs)
    /\ pc' = "run_all"
    /\ i' = 1 /\ j' = 1 /\ errors' = <<>>
    /\ UNCHANGED <<config, local_job, remote_jobs, k, cur, intervall, duration, wait_time,
                   stderr, requests, calls, running>>

RunReturn ==
    /\ pc = "remote_loop"
    /\ cur > Len(remote_jobs)
    /\ intervall' = config.val.interval
    /\ pc' = "returned"
    /\ UNCHANGED <<config, local_job, remote_jobs, k, cur, i, j, errors, duration,
                   wait_time, stderr, requests, calls, running>>

(***************************************************************************)
(* main, lines 164-171: run has returned and its locals are gone; the      *)
(* elapsed time is read and the wait computed.  intervall minus            *)
(* duration.as_secs() is a u64 subtraction: when it overflows, a build     *)
(* with overflow checks panics and a build without them wraps.  stderr,    *)
(* requests and calls record one call of run and start over with it.       *)
(***************************************************************************)
ElapsedValues == {n * ElapsedStep : n \in 0..MaxElapsedSteps}

WrappingSub(a, b) == (a - b) % Modulus

MainWait ==
    /\ pc = "returned"
    /\ \E secs \in ElapsedValues :
         /\ duration' = secs
         /\ IF secs > intervall
            THEN \/ pc' = "panicked_overflow" /\ wait_time' = wait_time
                 \/ pc' = "sleep" /\ wait_time' = Max(WrappingSub(intervall, secs), MinWait)
            ELSE pc' = "sleep" /\ wait_time' = Max(intervall - secs, MinWait)
    /\ config' = NoConfig
    /\ local_job' = None
    /\ remote_jobs' = <<>>
    /\ k' = 1
    /\ cur' = 0
    /\ i' = 1
    /\ j' = 1
    /\ errors' = <<>>
    /\ stderr' = <<>>
    /\ requests' = <<>>
    /\ calls' = <<>>
    /\ UNCHANGED <<intervall, running>>

\* Sleep as it would be if intervall were declared outside the loop
Sleep_Stale ==
    /\ pc = "sleep"
    /\ pc' = "start"
    /\ duration' = 0
    /\ wait_time' = 0
    /\ UNCHANGED <<config, local_job, remote_jobs, k, cur, i, j, errors, intervall,
                   stderr, requests, calls, running>>

(***************************************************************************)
(* main, lines 172-174: the sleep is over, the next cycle starts.          *)
(***************************************************************************)
Sleep ==
    /\ pc = "sleep"
    /\ pc' = "start"
    /\ intervall' = 0
    /\ duration' = 0
    /\ wait_time' = 0
    /\ UNCHANGED <<config, local_job, remote_jobs, k, cur, i, j, errors,
                   stderr, requests, calls, running>>

(***************************************************************************)
(* serde_helper.rs: vec_or_one.  What the deserializer holds for the field *)
(* is a string, an array of strings, or something else (a number, a table, *)
(* an array of something else); the untagged enum takes the first variant  *)
(* that fits.                                                              *)
(***************************************************************************)
\* longest array drawn for a field
MaxList == 3

FieldStrings == {"a", "b", "c", "d"}

FieldValue(kind, one, vec) == [kind |-> kind, one |-> one, vec |-> vec]

FieldValues ==
    {FieldValue("string", x, <<>>) : x \in FieldStrings}
    \cup {FieldValue("array", "", v) : v \in SeqsUpTo(FieldStrings, MaxList)}
    \cup {FieldValue("other", "", <<>>)}

\* vec_or_one as it would be without the is_empty check
vec_or_one_NoEmptyCheck(value) ==
    IF value.kind = "string" THEN Ok(<<value.one>>)
    ELSE IF value.kind = "array" THEN Ok(value.vec)
    ELSE Err(<<Msg("data did not match any variant of untagged enum EVecOrOne", "", "")>>)

vec_or_one(value) ==
    IF value.kind \notin {"string", "array"}
    THEN Err(<<Msg("data did not match any variant of untagged enum EVecOrOne", "", "")>>)
    ELSE LET vec == IF value.kind = "array" THEN value.vec ELSE <<value.one>>
         IN  IF vec = <<>>
             THEN Err(<<Msg("cannot deserialize from an empty sequence", "", "")>>)
             ELSE Ok(vec)

(***************************************************************************)
(* The resolver on its own: a source is drawn, then resolved.              *)
(***************************************************************************)
VARIABLES source, resolved, tasks

\* the field vec_or_one is given and what it returned
VARIABLES field, parsed

rvars == <<source, resolved, tasks, field, parsed>>
vars == <<cvars, rvars>>

NotParsed == [ok |-> FALSE, err |-> <<>>]
NoField == FieldValue("other", "", <<>>)

NotResolved == [ok |-> FALSE, err |-> <<>>]

ResolverIdle ==
    /\ source = NoDocument
    /\ resolved = FALSE
    /\ tasks = NotResolved
    /\ field = NoField
    /\ parsed = NotParsed

ResolveInit ==
    /\ source \in TaskSource
    /\ resolved = FALSE
    /\ tasks = NotResolved
    /\ field = NoField
    /\ parsed = NotParsed
    /\ CycleStart

Resolve ==
    /\ ~resolved
    /\ pc = "start"
    /\ resolved' = TRUE
    /\ tasks' = try_from(source)
    /\ UNCHANGED <<source, field, parsed, cvars>>

ResolveNext == Resolve

SpecResolve == ResolveInit /\ [][ResolveNext]_vars

(***************************************************************************)
(* vec_or_one on its own: a field is drawn, then deserialized.             *)
(***************************************************************************)
ParseInit ==
    /\ field \in FieldValues
    /\ parsed = NotParsed
    /\ source = NoDocument
    /\ resolved = FALSE
    /\ tasks = NotResolved
    /\ CycleStart

Parse ==
    /\ parsed = NotParsed
    /\ pc = "start"
    /\ parsed' = vec_or_one(field)
    /\ UNCHANGED <<source, resolved, tasks, field, cvars>>

ParseNext == Parse

SpecParse == ParseInit /\ [][ParseNext]_vars

(***************************************************************************)
(* The scheduler.                                                          *)
(***************************************************************************)
Init == CycleStart /\ ResolverIdle

Next ==
    \/ LoadConfigFailed /\ UNCHANGED rvars
    \/ LoadConfig /\ UNCHANGED rvars
    \/ Fetch /\ UNCHANGED rvars
    \/ RunLocal /\ UNCHANGED rvars
    \/ RunAllJob /\ UNCHANGED rvars
    \/ RunAllWait /\ UNCHANGED rvars
    \/ RunAllSummary /\ UNCHANGED rvars
    \/ RunRemote /\ UNCHANGED rvars
    \/ RunReturn /\ UNCHANGED rvars
    \/ MainWait /\ UNCHANGED rvars
    \/ Sleep /\ UNCHANGED rvars

Spec == Init /\ [][Next]_vars

(***************************************************************************)
(* What the claims speak of.                                               *)
(***************************************************************************)
ProfileNamesOf(src) == {src.profile[x].name : x \in DOMAIN src.profile}

HasDuplicate(src) ==
    \E x, y \in DOMAIN src.profile : x < y /\ src.profile[x].name = src.profile[y].name

IsDangling(src, d, r) == src.download[d].profile[r] \notin ProfileNamesOf(src)

HasDangling(src) ==
    \E d \in DOMAIN src.download : \E r \in DOMAIN src.download[d].profile :
        IsDangling(src, d, r)

ValidSource(src) == ~HasDuplicate(src) /\ ~HasDangling(src)

\* the first profile whose name was declared before it
FirstDuplicate(src) ==
    CHOOSE y \in DOMAIN src.profile :
        /\ \E x \in 1..(y - 1) : src.profile[x].name = src.profile[y].name
        /\ \A z \in 1..(y - 1) :
             \A x \in 1..(z - 1) : src.profile[x].name # src.profile[z].name

\* <<d, r>> comes before <<e, s>> in declaration order
Before(d, r, e, s) == d < e \/ (d = e /\ r < s)

\* every (download, profile name) position of a download list, in declaration order
RECURSIVE PairsFrom(_, _)
PairsFrom(downloads, d) ==
    IF d > Len(downloads) THEN <<>>
    ELSE [r \in 1..Len(downloads[d].profile) |-> <<d, r>>] \o PairsFrom(downloads, d + 1)

\* the calls of download made for job set n
CallsOf(n) == SelectSeq(calls, LAMBDA c : c.set = n)

\* the calls cs are the first Len(cs) pairs of the download list, in order,
\* each for the download and the profile name at its position
CallsFollow(cs, downloads) ==
    LET all == PairsFrom(downloads, 1)
    IN  /\ Len(cs) <= Len(all)
        /\ \A x \in DOMAIN cs :
             /\ <<cs[x].di, cs[x].pi>> = all[x]
             /\ cs[x].download = downloads[cs[x].di].name
             /\ cs[x].profile.name = downloads[cs[x].di].profile[cs[x].pi]

\* job set n has been run in full
RunInFull(n, downloads) ==
    /\ CallsFollow(CallsOf(n), downloads)
    /\ Len(CallsOf(n)) = Len(PairsFrom(downloads, 1))

RECURSIVE TruePositions(_, _)
TruePositions(flags, n) ==
    IF n > Len(flags) THEN <<>>
    ELSE (IF flags[n] THEN <<n>> ELSE <<>>) \o TruePositions(flags, n + 1)

\* the response is dropped: no body, no TaskSource, or one that does not resolve
FailingResponse(response) == response.kind # "document" \/ ~ValidSource(response.doc)

FailedRequests == TruePositions([n \in DOMAIN requests |-> FailingResponse(requests[n].response)], 1)
GoodRequests == TruePositions([n \in DOMAIN requests |-> ~FailingResponse(requests[n].response)], 1)

\* the lines of stderr about a remote job
RemoteLines == SelectSeq(stderr, LAMBDA l : l.err[1].msg = "failed to load remote job at")

\* the remote half of a cycle whose configuration loaded: every URL was
\* requested once, every failing one left one line naming it, every other one
\* was kept and run in full
RemoteJobsHandled ==
    /\ Len(requests) = Len(config.val.remote_job)
    /\ \A n \in DOMAIN requests : requests[n].url = config.val.remote_job[n]
    /\ Len(RemoteLines) = Len(FailedRequests)
    /\ \A x \in DOMAIN RemoteLines :
         RemoteLines[x].err[1].a = requests[FailedRequests[x]].url
    /\ Len(remote_jobs) = Len(GoodRequests)
    /\ \A x \in DOMAIN remote_jobs :
         /\ remote_jobs[x].url = requests[GoodRequests[x]].url
         /\ remote_jobs[x].job.download = requests[GoodRequests[x]].response.doc.download
         /\ RunInFull(x, remote_jobs[x].job.download)

LocalSource == [profile |-> config.val.profile, download |-> config.val.download]

(***************************************************************************)
(* C1: in every cycle the wait is max(interval - elapsed, 120) with the    *)
(* subtraction signed, and computing it does not fail.                     *)
(***************************************************************************)
C1_WaitIsSignedMax ==
    /\ pc = "sleep" => wait_time = Max(intervall - duration, MinWait)
    /\ pc # "panicked_overflow"

(***************************************************************************)
(* C2: no error terminates the scheduler: there is no reachable crashed    *)
(* state.                                                                  *)
(***************************************************************************)
C2_NeverCrashes == pc \notin {"panicked_overflow", "panicked_unwrap"}

(***************************************************************************)
(* C3: run_all calls the executor for every (download, profile) pair       *)
(* whatever the earlier outcomes, and errors holds one entry per failed    *)
(* pair, in order, each naming the failing download and profile.           *)
(***************************************************************************)
C3_JobIsolation ==
    pc = "run_all" =>
        LET cs == CallsOf(cur)
            failed == SelectSeq(cs, LAMBDA c : c.outcome # "ok")
        IN  /\ CallsFollow(cs, CurTasks.download)
            /\ i > Len(CurTasks.download) => RunInFull(cur, CurTasks.download)
            /\ Len(errors) = Len(failed)
            /\ \A x \in DOMAIN errors :
                 errors[x][1] = Msg("Falied to process", failed[x].download,
                                    failed[x].profile.name)

\* the first of two downloads failed, the second succeeded, one error names the first
C3_Witness ==
    /\ pc = "run_all"
    /\ cur = 0
    /\ Len(CurTasks.download) = 2
    /\ i > 2
    /\ Len(calls) = 2
    /\ calls[1].outcome = "nonzero_exit"
    /\ calls[2].outcome = "ok"
    /\ Len(errors) = 1
    /\ errors[1][1].a = CurTasks.download[1].name

(***************************************************************************)
(* C4: every URL of remote_job is handled on its own: a failing one is     *)
(* dropped with one line naming it, every other one has all its jobs run   *)
(* in the same cycle, wherever the failing URL stands in the list.         *)
(***************************************************************************)
C4_RemoteIsolation == (pc = "returned" /\ config.loaded) => RemoteJobsHandled

\* the first URL came back malformed, the second resolved and was run
C4_Witness ==
    /\ pc = "returned"
    /\ config.loaded
    /\ Len(requests) = 2
    /\ requests[1].response.kind = "malformed"
    /\ requests[2].response.kind = "document"
    /\ Len(remote_jobs) = 1
    /\ Len(CallsOf(1)) = 1
    /\ Len(RemoteLines) = 1

(***************************************************************************)
(* C5: every Tasks value holds, for every profile name of every download,  *)
(* a profile of that name; the lookup of run_all never fails.              *)
(***************************************************************************)
NoDanglingReference(t) ==
    \A d \in DOMAIN t.download : \A r \in DOMAIN t.download[d].profile :
        t.download[d].profile[r] \in DOMAIN t.profiles

C5_ValidationGate ==
    /\ local_job.some => NoDanglingReference(local_job.val)
    /\ \A n \in DOMAIN remote_jobs : NoDanglingReference(remote_jobs[n].job)
    /\ pc # "panicked_unwrap"

\* a local and a remote Tasks were both run to their end
C5_Witness ==
    /\ pc = "returned"
    /\ local_job.some
    /\ Len(remote_jobs) >= 1
    /\ Len(CallsOf(0)) = 2
    /\ Len(CallsOf(1)) = 1

(***************************************************************************)
(* C6: a TaskSource with two profiles of one name is rejected whole, with  *)
(* the duplicate-profile error naming that name; no Tasks is produced.     *)
(***************************************************************************)
C6_DuplicateRejected ==
    (resolved /\ HasDuplicate(source)) =>
        /\ ~tasks.ok
        /\ tasks.err = <<Msg("duplicate profile name",
                             source.profile[FirstDuplicate(source)].name, "")>>

\* a source with a duplicate whose downloads are all well referenced
C6_Witness ==
    /\ resolved
    /\ HasDuplicate(source)
    /\ ~HasDangling(source)
    /\ Len(source.download) = 2

(***************************************************************************)
(* C7 as claimed: a TaskSource with a dangling profile reference fails     *)
(* with the unknown-profile-reference error naming the download and the    *)
(* missing profile.                                                        *)
(***************************************************************************)
NamesADanglingReference(src, err) ==
    \E d \in DOMAIN src.download : \E r \in DOMAIN src.download[d].profile :
        /\ IsDangling(src, d, r)
        /\ err = <<Msg("can not find profile", src.download[d].profile[r],
                       src.download[d].name)>>

C7_Original ==
    (resolved /\ HasDangling(source)) =>
        (~tasks.ok /\ NamesADanglingReference(source, tasks.err))

(***************************************************************************)
(* C7 as amended: a TaskSource without duplicate profile names and with a  *)
(* dangling profile reference fails with the unknown-profile-reference     *)
(* error naming the download and the missing profile of the first dangling *)
(* reference in declaration order; no Tasks is produced.                   *)
(***************************************************************************)
C7_DanglingRejected ==
    (resolved /\ HasDangling(source) /\ ~HasDuplicate(source)) =>
        /\ ~tasks.ok
        /\ \E d \in DOMAIN source.download : \E r \in DOMAIN source.download[d].profile :
             /\ IsDangling(source, d, r)
             /\ \A e \in DOMAIN source.download : \A q \in DOMAIN source.download[e].profile :
                  Before(e, q, d, r) => ~IsDangling(source, e, q)
             /\ tasks.err = <<Msg("can not find profile", source.download[d].profile[r],
                                  source.download[d].name)>>

\* the only dangling reference is the second profile name of the second download
C7_Witness ==
    /\ resolved
    /\ ~HasDuplicate(source)
    /\ Len(source.download) = 2
    /\ Len(source.download[2].profile) = 2
    /\ IsDangling(source, 2, 2)
    /\ ~IsDangling(source, 2, 1)
    /\ \A r \in DOMAIN source.download[1].profile : ~IsDangling(source, 1, r)
    /\ ~tasks.ok

(***************************************************************************)
(* C8: a TaskSource without duplicate names and without dangling           *)
(* references resolves; the keys of Tasks.profiles are the declared names, *)
(* each key maps to the profile declared under it, and Tasks.download is   *)
(* the download list of the source, in its order.                          *)
(***************************************************************************)
C8_ValidResolves ==
    (resolved /\ ValidSource(source)) =>
        /\ tasks.ok
        /\ DOMAIN tasks.val.profiles = ProfileNamesOf(source)
        /\ \A x \in DOMAIN source.profile :
             tasks.val.profiles[source.profile[x].name] = source.profile[x]
        /\ tasks.val.download = source.download

\* two profiles and two downloads, resolved
C8_Witness ==
    /\ resolved
    /\ ValidSource(source)
    /\ Len(source.profile) = 2
    /\ Len(source.download) = 2
    /\ tasks.ok

C10_LocalFailureSkipsLocalOnly ==
    (pc = "returned" /\ config.loaded /\ ~ValidSource(LocalSource)) =>
        /\ ~local_job.some
        /\ CallsOf(0) = <<>>
        /\ stderr[1].err[1].msg = "failed to load local jobs"
        /\ RemoteJobsHandled
        /\ \A c \in DOMAIN calls : calls[c].set \in DOMAIN remote_jobs
        /\ intervall = config.val.interval

\* the local jobs did not resolve and two remote job sets were run
C10_Witness ==
    /\ pc = "returned"
    /\ config.loaded
    /\ ~ValidSource(LocalSource)
    /\ Len(remote_jobs) = 2
    /\ Len(calls) = 2
    /\ intervall = config.val.interval

(***************************************************************************)
(* More of what the claims speak of.                                       *)
(***************************************************************************)
\* the Tasks of job set n, 0 the local one
TasksOf(n) == IF n = 0 THEN local_job.val ELSE remote_jobs[n].job

\* the job sets run hands to run_all
RunSets == (IF local_job.some THEN {0} ELSE {}) \cup DOMAIN remote_jobs

\* the (download name, profile name) of every call, in the order of the calls
JobNames(cs) == [x \in DOMAIN cs |-> <<cs[x].download, cs[x].profile.name>>]

\* the (download name, profile name) pairs a download list declares, in
\* declaration order
DeclaredJobs(downloads) ==
    LET all == PairsFrom(downloads, 1)
    IN  [x \in DOMAIN all |->
            <<downloads[all[x][1]].name, downloads[all[x][1]].profile[all[x][2]]>>]

(***************************************************************************)
(* C11: inside one run_all the calls of the executor are the pairs of      *)
(* tasks.download, downloads in declaration order and within a download    *)
(* its profile names in declaration order: what was called so far is a     *)
(* prefix of that list, the loops stand at the next pair of it, and when   *)
(* the loops are over every pair was called and nothing else.              *)
(***************************************************************************)
C11_ExecutionOrder ==
    pc \in {"run_all", "waiting"} =>
        LET declared == DeclaredJobs(CurTasks.download)
            all == PairsFrom(CurTasks.download, 1)
            cs == CallsOf(cur)
        IN  /\ Len(cs) <= Len(declared)
            /\ JobNames(cs) = SubSeq(declared, 1, Len(cs))
            /\ i <= Len(CurTasks.download) => <<i, j>> = all[Len(cs) + 1]
            /\ i > Len(CurTasks.download) => JobNames(cs) = declared

\* one download under two profiles: audio was run, then video, and the loops
\* are over
C11_Witness ==
    /\ pc = "run_all"
    /\ cur = 0
    /\ Len(CurTasks.download) = 1
    /\ i = 2
    /\ JobNames(calls) = <<<<"news", "audio">>, <<"news", "video">>>>

(***************************************************************************)
(* C12: within one cycle the job sets are run one after the other, the     *)
(* local one first and the remote ones in the order of their URLs in       *)
(* remote_job, and no job runs before every URL has been requested.        *)
(***************************************************************************)
C12_LocalBeforeRemote ==
    config.loaded =>
        /\ \A x, y \in DOMAIN calls : x < y => calls[x].set <= calls[y].set
        /\ \A x \in DOMAIN calls : calls[x].set \in RunSets
        /\ Len(remote_jobs) = Len(GoodRequests)
        /\ \A x \in DOMAIN remote_jobs :
             remote_jobs[x].url = config.val.remote_job[GoodRequests[x]]
        /\ (calls # <<>> \/ pc \in {"run_all", "waiting"}) =>
             /\ Len(requests) = Len(config.val.remote_job)
             /\ \A n \in DOMAIN requests : requests[n].url = config.val.remote_job[n]

\* two local jobs, then the job of the first URL, then the job of the second
C12_Witness ==
    /\ pc = "returned"
    /\ config.loaded
    /\ config.val.remote_job = <<"https://r/1", "https://r/2">>
    /\ [x \in DOMAIN calls |-> calls[x].set] = <<0, 0, 1, 2>>
    /\ remote_jobs[1].url = "https://r/1"
    /\ remote_jobs[2].url = "https://r/2"

CallsFor(n, d, r) == SelectSeq(calls, LAMBDA c : c.set = n /\ c.di = d /\ c.pi = r)

\* those of the calls cs in which cmd.status() was reached
Launched(cs) == SelectSeq(cs, LAMBDA c : c.status_called)

(***************************************************************************)
(* C14 as claimed: when a cycle is over the binary was launched exactly    *)
(* once for every (download, profile) pair of every job set that was run,  *)
(* also when the archive directory could not be created.                   *)
(***************************************************************************)
C14_Original ==
    (pc = "returned" /\ config.loaded) =>
        \A n \in RunSets :
            \A d \in DOMAIN TasksOf(n).download :
                \A r \in DOMAIN TasksOf(n).download[d].profile :
                    Len(Launched(CallsFor(n, d, r))) = 1

(***************************************************************************)
(* C14 as amended: no pair is ever handed to the executor twice in a       *)
(* cycle, and when the cycle is over every pair of every job set that was  *)
(* run was handed to it once; that call tried to launch the binary once,   *)
(* unless the profile archives and the archive directory could not be      *)
(* created: then nothing was launched.                                     *)
(***************************************************************************)
C14_OneLaunchAttempt ==
    /\ \A x, y \in DOMAIN calls :
         x < y => <<calls[x].set, calls[x].di, calls[x].pi>>
                      # <<calls[y].set, calls[y].di, calls[y].pi>>
    /\ (pc = "returned" /\ config.loaded) =>
         \A n \in RunSets :
             \A d \in DOMAIN TasksOf(n).download :
                 \A r \in DOMAIN TasksOf(n).download[d].profile :
                     LET cs == CallsFor(n, d, r)
                         mkdir_failed == /\ cs[1].profile.archive
                                         /\ cs[1].outcome = "mkdir_failed"
                     IN  /\ Len(cs) = 1
                         /\ Len(Launched(cs)) = IF mkdir_failed THEN 0 ELSE 1

\* the archive directory could not be created for the first job: nothing was
\* launched for it, and the second job was launched
C14_Witness ==
    /\ pc = "returned"
    /\ Len(calls) = 2
    /\ calls[1].outcome = "mkdir_failed"
    /\ ~calls[1].status_called
    /\ calls[2].outcome = "nonzero_exit"
    /\ calls[2].status_called

\* the lines of stderr that print the chain e inline, and in a summary
Inline(e) == SelectSeq(stderr, LAMBDA l : l.err = e /\ l.fmt # "debug_nl")
Summary(e) == SelectSeq(stderr, LAMBDA l : l.err = e /\ l.fmt = "debug_nl")

\* the chain is the error of a job
IsJobError(e) == e[1].msg = "Falied to process"

InlineJobLines == SelectSeq(stderr, LAMBDA l : IsJobError(l.err) /\ l.fmt # "debug_nl")
SummaryJobLines == SelectSeq(stderr, LAMBDA l : IsJobError(l.err) /\ l.fmt = "debug_nl")

(***************************************************************************)
(* C15 as claimed: when a cycle is over every error on stderr was printed  *)
(* inline and once more in a summary, whatever its kind.                   *)
(***************************************************************************)
C15_Original ==
    pc = "returned" =>
        \A x \in DOMAIN stderr :
            /\ Len(Inline(stderr[x].err)) >= 1
            /\ Len(Summary(stderr[x].err)) = Len(Inline(stderr[x].err))

(***************************************************************************)
(* C15 as amended: every job error is printed twice, inline when the job   *)
(* fails and once more in the summary run_all prints when all pairs of its *)
(* job set were tried; the errors of the configuration load, of the local  *)
(* resolution and of a remote job set are printed once, inline, and are in *)
(* no summary.                                                             *)
(***************************************************************************)
C15_JobErrorsTwice ==
    /\ \A x \in DOMAIN stderr :
         ~IsJobError(stderr[x].err) =>
             /\ stderr[x].fmt # "debug_nl"
             /\ Summary(stderr[x].err) = <<>>
    /\ Len(InlineJobLines) = Len(SelectSeq(calls, LAMBDA c : c.outcome # "ok"))
    /\ pc \in {"run_all", "waiting"} =>
         /\ Len(InlineJobLines) = Len(SummaryJobLines) + Len(errors)
         /\ \A x \in DOMAIN errors :
              InlineJobLines[Len(SummaryJobLines) + x].err = errors[x]
    /\ pc \in {"remote_loop", "returned"} =>
         /\ Len(SummaryJobLines) = Len(InlineJobLines)
         /\ \A x \in DOMAIN SummaryJobLines : SummaryJobLines[x].err = InlineJobLines[x].err

\* a remote error printed once, a job error printed inline and in the summary
C15_Witness ==
    /\ pc = "returned"
    /\ Len(stderr) = 3
    /\ stderr[1].err[1].msg = "failed to load remote job at"
    /\ stderr[1].fmt = "debug"
    /\ IsJobError(stderr[2].err)
    /\ stderr[2].fmt = "debug"
    /\ stderr[3] = Line(stderr[2].err, "debug_nl")
    /\ Len(calls) >= 2

\* the TaskSource job set n was resolved from
SourceOf(n) == IF n = 0 THEN LocalSource ELSE requests[GoodRequests[n]].response.doc

\* the jobs of the sources at the positions ns of requests, one source after
\* the other
RECURSIVE JobsOfRequests(_, _)
JobsOfRequests(ns, x) ==
    IF x > Len(ns) THEN <<>>
    ELSE DeclaredJobs(requests[ns[x]].response.doc.download) \o JobsOfRequests(ns, x + 1)

\* the jobs the configuration file and the remote documents of this cycle
\* declare: those of the local source, then those of every remote document
ExpectedJobs ==
    (IF ValidSource(LocalSource) THEN DeclaredJobs(config.val.download) ELSE <<>>)
    \o JobsOfRequests(GoodRequests, 1)

C17_ScalarOrList ==
    parsed # NotParsed =>
        /\ field.kind = "string" =>
             /\ parsed = Ok(<<field.one>>)
             /\ parsed = vec_or_one(FieldValue("array", "", <<field.one>>))
        /\ (field.kind = "array" /\ Len(field.vec) >= 1) => parsed = Ok(field.vec)
        /\ (field.kind = "array" /\ field.vec = <<>>) =>
             /\ ~parsed.ok
             /\ parsed.err[1].msg = "cannot deserialize from an empty sequence"
        /\ parsed.ok => Len(parsed.val) >= 1

\* the empty list was given and rejected
C17_Witness ==
    /\ parsed # NotParsed
    /\ field.kind = "array"
    /\ field.vec = <<>>
    /\ ~parsed.ok

(***************************************************************************)
(* C19: at most one process started by the runner is running, and while it *)
(* runs the runner is inside cmd.status(): it launches no other job,       *)
(* prints no summary and does not compute the wait or sleep.               *)
(***************************************************************************)
C19_Sequential ==
    /\ running \in {0, 1}
    /\ running = 1 <=> pc = "waiting"

\* the process of the first job has exited, that of the second is running
C19_Witness ==
    /\ pc = "waiting"
    /\ running = 1
    /\ Len(calls) = 1
    /\ calls[1].outcome = "ok"
    /\ calls[1].status_called

(***************************************************************************)
(* C20: every source is resolved against its own profiles only.  The local *)
(* jobs are run exactly when the local source is valid on its own, a       *)
(* remote document is kept exactly when it is valid on its own and is      *)
(* otherwise rejected for its own duplicate or its own unknown reference,  *)
(* and every job is run under the profile its own source declares under    *)
(* the name, with that profile's arguments.                                *)
(***************************************************************************)
C20_NamespacePerSource ==
    (pc = "returned" /\ config.loaded) =>
        /\ local_job.some <=> ValidSource(LocalSource)
        /\ Len(remote_jobs) = Len(GoodRequests)
        /\ Len(RemoteLines) = Len(FailedRequests)
        /\ \A x \in DOMAIN FailedRequests :
             LET response == requests[FailedRequests[x]].response
             IN  response.kind = "document" =>
                     RemoteLines[x].err[2].msg =
                         IF HasDuplicate(response.doc) THEN "duplicate profile name"
                         ELSE "can not find profile"
        /\ \A x \in DOMAIN calls :
             LET c == calls[x]
                 src == SourceOf(c.set)
                 n == IF c.profile.archive THEN 2 ELSE 0
             IN  /\ c.profile.name = src.download[c.di].profile[c.pi]
                 /\ \E y \in DOMAIN src.profile : src.profile[y] = c.profile
                 /\ c.status_called =>
                      \A y \in DOMAIN c.profile.args :
                          c.cmd.args[n + y] = <<c.profile.args[y]>>

\* the local source and the second document both declare "audio", each with
\* its own arguments, and each ran its job under its own; the first document
\* refers to "audio", which only the others declare, and was rejected
C20_Witness ==
    /\ pc = "returned"
    /\ config.loaded
    /\ LocalSource = SrcTwoDownloads
    /\ Len(requests) = 2
    /\ requests[1].response.doc = SrcRemoteDangling
    /\ requests[2].response.doc = SrcRemoteAudio
    /\ Len(RemoteLines) = 1
    /\ RemoteLines[1].err[2] = Msg("can not find profile", "audio", "music")
    /\ Len(calls) = 3
    /\ calls[1].set = 0 /\ calls[1].profile = pAudio
    /\ calls[3].set = 1 /\ calls[3].profile = pAudioAlt
    /\ \A x \in DOMAIN calls : calls[x].status_called
    /\ calls[1].cmd.args[3] = <<"-x">>
    /\ calls[3].cmd.args[1] = <<"-f">>
====
